---------------------------- MODULE Spec2Model ----------------------------
(***************************************************************************)
(* A model of src/app.py: the customer/service registry of SatelM_API.     *)
(*                                                                         *)
(* The store is the pair of tables (customers, services).  Every request   *)
(* handler of CustomerService is an action.  Text is modelled as a         *)
(* sequence of one-character strings, so that parsing (strptime, the       *)
(* store's INTEGER coercion of a textual id) and formatting (str(date),    *)
(* "{}".format(int)) are computed and not assumed to be inverse.           *)
(*                                                                         *)
(* Spec       the four handlers run one at a time, up to the service limit *)
(* SpecFields the four handlers run one at a time, more customers, birth   *)
(*            dates in both spellings, ids that are no number              *)
(* SpecAge    add_customer over a range of clock dates and birth dates     *)
(* SpecConc   create_service run by several workers, step by step          *)
(***************************************************************************)
EXTENDS Integers, Sequences, FiniteSets, TLC

VARIABLES
    customers,      \* table customers: sequence of rows, row i has id i
    services,       \* table services: sequence of rows, row i has id i
    today,          \* the date datetime.now().date() returns
    open_sessions,  \* sessions created by Session() and not yet close()d
    ret,            \* the response of the last completed handler call
    submitted,      \* history: the arguments of each successful add_customer
    pc,             \* per worker: position inside create_service
    sess            \* per worker: the identity map / pending state of its session

vars == <<customers, services, today, open_sessions, ret, submitted, pc, sess>>

(***************************************************************************)
(* Bounds of the model.                                                    *)
(***************************************************************************)
MaxCustomers == 1
MaxRows == 11
MaxOpen == 1
MaxFewCustomers == 2
MaxFewRows == 2
MaxBirths == 1
NumWorkers == 2
MaxRowsConc == 11

(***************************************************************************)
(* Program constants.                                                      *)
(***************************************************************************)
MaxServices == 10
AdultAge == 18

(***************************************************************************)
(* Text.                                                                   *)
(***************************************************************************)
Digits == <<"0", "1", "2", "3", "4", "5", "6", "7", "8", "9">>

IsDigit(ch) == \E i \in 1..10 : Digits[i] = ch

DigitVal(ch) == (CHOOSE i \in 1..10 : Digits[i] = ch) - 1

AllDigits(s) == \A i \in 1..Len(s) : IsDigit(s[i])

RECURSIVE ParseNat(_)
ParseNat(s) ==
    IF s = <<>> THEN 0
    ELSE 10 * ParseNat(SubSeq(s, 1, Len(s) - 1)) + DigitVal(s[Len(s)])

RECURSIVE Decimal(_)
Decimal(n) ==
    IF n < 10 THEN <<Digits[n + 1]>>
    ELSE Decimal(n \div 10) \o <<Digits[(n % 10) + 1]>>

RECURSIVE ZeroPad(_, _)
ZeroPad(s, width) == IF Len(s) >= width THEN s ELSE ZeroPad(<<"0">> \o s, width)

\* The fields of a text between the occurrences of sep.
RECURSIVE Split(_, _)
Split(s, sep) ==
    IF \A i \in 1..Len(s) : s[i] # sep THEN <<s>>
    ELSE LET k == CHOOSE i \in 1..Len(s) :
                      s[i] = sep /\ \A j \in 1..(i - 1) : s[j] # sep
         IN  <<SubSeq(s, 1, k - 1)>> \o Split(SubSeq(s, k + 1, Len(s)), sep)

(***************************************************************************)
(* Dates.                                                                  *)
(***************************************************************************)
IsLeap(y) == (y % 4 = 0 /\ y % 100 # 0) \/ y % 400 = 0

DaysIn(y, m) ==
    IF m = 2 THEN (IF IsLeap(y) THEN 29 ELSE 28)
    ELSE IF m \in {4, 6, 9, 11} THEN 30 ELSE 31

Date(y, m, d) == [year |-> y, month |-> m, day |-> d]

ValueError == [year |-> 0, month |-> 0, day |-> 0]

\* datetime.strptime(text, '%Y-%m-%d').date(): %Y is exactly four digits, %m
\* and %d are one or two digits (a leading zero is optional), the whole text
\* must match, and the fields must name a day of the calendar.
strptime(text) ==
    LET f == Split(text, "-") IN
    IF Len(f) # 3 THEN ValueError
    ELSE IF ~(AllDigits(f[1]) /\ AllDigits(f[2]) /\ AllDigits(f[3])) THEN ValueError
    ELSE IF Len(f[1]) # 4 \/ Len(f[2]) \notin {1, 2} \/ Len(f[3]) \notin {1, 2}
         THEN ValueError
    ELSE LET y == ParseNat(f[1])
             m == ParseNat(f[2])
             d == ParseNat(f[3])
         IN  IF y >= 1 /\ m \in 1..12 /\ d >= 1 /\ d <= DaysIn(y, m)
             THEN Date(y, m, d)
             ELSE ValueError

\* str(date), which "{}".format(customer.birth_date) uses: YYYY-MM-DD.
isoformat(date) ==
    ZeroPad(Decimal(date.year), 4) \o <<"-">> \o ZeroPad(Decimal(date.month), 2)
        \o <<"-">> \o ZeroPad(Decimal(date.day), 2)

\* Python's (a, b) < (c, d) on pairs of integers.
PairLess(a, b) == a[1] < b[1] \/ (a[1] = b[1] /\ a[2] < b[2])

\* The age with the birthday itself counted as not yet reached.
AgeOffByBirthdayRule(t, birth_date) ==
    t.year - birth_date.year
        - (IF PairLess(<<t.month, t.day>>, <<birth_date.month, birth_date.day + 1>>)
           THEN 1 ELSE 0)

\* Line 84.
Age(t, birth_date) ==
    t.year - birth_date.year
        - (IF PairLess(<<t.month, t.day>>, <<birth_date.month, birth_date.day>>)
           THEN 1 ELSE 0)


(***************************************************************************)
(* The schema and the store.                                               *)
(***************************************************************************)
\* Customer(...) at lines 90-91; id is the next rowid, services_count takes
\* the column default.
Customer(id, name, family, father_name, national_id, shenasname_id, birth_date, address) ==
    [id |-> id, name |-> name, family |-> family, father_name |-> father_name,
     national_id |-> national_id, shenasname_id |-> shenasname_id,
     birth_date |-> birth_date, address |-> address, services_count |-> 0]

\* Service(...) at line 145, before it has an id.
Service(name, phone_number, customer_id) ==
    [name |-> name, phone_number |-> phone_number, customer_id |-> customer_id]

\* What .first() returns when no row matches.
None == [id |-> 0]

\* The store compares the INTEGER column with the bound text under numeric
\* affinity: a text of digits is compared as its number, and a text with no
\* digit in it equals no id.
CoerceId(text) == IF text # <<>> /\ AllDigits(text) THEN ParseNat(text) ELSE 0

\* The query without its filter.
QueryFirstRowUnfiltered(custs, customer_id) ==
    IF custs = <<>> THEN None ELSE custs[1]

\* session.query(Customer).filter_by(id=customer_id).first()
QueryCustomer(custs, customer_id) ==
    LET hits == SelectSeq(custs, LAMBDA c : c.id = CoerceId(customer_id))
    IN  IF hits = <<>> THEN None ELSE hits[1]

\* customer.services: the rows whose foreign key is the customer's id.
ServicesOf(svcs, customer) == SelectSeq(svcs, LAMBDA s : s.customer_id = customer.id)

\* The limit check with > for >=.
LimitReachedOffByOne(customer) == customer.services_count > MaxServices

\* Line 140.
LimitReached(customer) == customer.services_count >= MaxServices

\* Lines 145-149: the session's pending changes, the new Service and the
\* loaded Customer with its counter incremented in memory.
UnitOfWork(customer, customer_id, phone_number, service_name) ==
    [service |-> Service(service_name, phone_number, CoerceId(customer_id)),
     customer |-> [customer EXCEPT !.services_count = @ + 1]]

\* Line 151, the INSERT of the flush.
InsertService(svcs, u) ==
    Append(svcs, [id |-> Len(svcs) + 1, name |-> u.service.name,
                  phone_number |-> u.service.phone_number,
                  customer_id |-> u.service.customer_id])

\* A flush that leaves the counter unwritten.
UpdateCustomerNotFlushed(custs, u) == custs

\* An UPDATE that increments in the store: services_count = services_count + 1.
UpdateCustomerInStore(custs, u) ==
    [custs EXCEPT ![u.customer.id].services_count = @ + 1]

\* Line 151, the UPDATE of the flush: it stores the value held in memory.
UpdateCustomer(custs, u) ==
    [custs EXCEPT ![u.customer.id].services_count = u.customer.services_count]

(***************************************************************************)
(* Responses.                                                              *)
(***************************************************************************)
Response(op, args, msg, body) == [op |-> op, args |-> args, msg |-> msg, body |-> body]

AgeMessage == "Age must be 18 or older to register as a customer."
CustomerAdded == "Customer added successfully."
NotFound == "Customer not found."
MaxReached == "Maximum number of services reached for this customer."
ServiceCreated == "Service created successfully."
Raised == "ValueError"
Block == "\n"

\* The block with name and family exchanged.
CustomerBlockSwapped(customer) ==
    <<<<"id", Decimal(customer.id)>>, <<"Name", customer.family>>,
      <<"family", customer.name>>, <<"father_name", customer.father_name>>,
      <<"national_id", customer.national_id>>,
      <<"shenasname_id", customer.shenasname_id>>,
      <<"birth_date", isoformat(customer.birth_date)>>,
      <<"Address", customer.address>>>>

\* Lines 110-114: one <<label, value>> per line of the text block.
CustomerBlock(customer) ==
    <<<<"id", Decimal(customer.id)>>, <<"Name", customer.name>>,
      <<"family", customer.family>>, <<"father_name", customer.father_name>>,
      <<"national_id", customer.national_id>>,
      <<"shenasname_id", customer.shenasname_id>>,
      <<"birth_date", isoformat(customer.birth_date)>>,
      <<"Address", customer.address>>>>

RECURSIVE ServiceLines(_)
ServiceLines(rows) ==
    IF rows = <<>> THEN <<>>
    ELSE <<<<"Service ID", Decimal(rows[1].id)>>, <<"Name", rows[1].name>>,
           <<"Phone Number", rows[1].phone_number>>>> \o ServiceLines(Tail(rows))

\* Lines 169-173.
ServicesBlock(customer, rows) ==
    <<<<"Customer ID", Decimal(customer.id)>>, <<"Name", customer.name>>,
      <<"Family", customer.family>>>> \o ServiceLines(rows)

(***************************************************************************)
(* The handlers, each run from its first line to its return.               *)
(***************************************************************************)
\* Lines 81-95.
add_customer(name, family, father_name, national_id, shenasname_id, birth_date, address) ==
    LET args == <<name, family, father_name, national_id, shenasname_id, birth_date, address>>
        parsed == strptime(birth_date)
    IN  /\ UNCHANGED <<services, today, pc, sess>>
        /\ IF parsed = ValueError
           THEN \* line 82 raises after line 81 opened the session
                /\ open_sessions' = open_sessions + 1
                /\ ret' = Response("add_customer", args, Raised, <<>>)
                /\ UNCHANGED <<customers, submitted>>
           ELSE IF Age(today, parsed) < AdultAge
           THEN /\ ret' = Response("add_customer", args, AgeMessage, <<>>)
                /\ UNCHANGED <<customers, submitted, open_sessions>>
           ELSE /\ customers' = Append(customers,
                        Customer(Len(customers) + 1, name, family, father_name,
                                 national_id, shenasname_id, parsed, address))
                /\ submitted' = Append(submitted, args)
                /\ ret' = Response("add_customer", args, CustomerAdded, <<>>)
                /\ UNCHANGED open_sessions

\* Lines 106-118.
get_customer(customer_id) ==
    LET customer == QueryCustomer(customers, customer_id)
    IN  /\ UNCHANGED <<customers, services, today, submitted, pc, sess>>
        /\ IF customer # None
           THEN /\ ret' = Response("get_customer", <<customer_id>>, Block,
                                   CustomerBlock(customer))
                /\ UNCHANGED open_sessions
           ELSE \* line 118 returns without session.close()
                /\ ret' = Response("get_customer", <<customer_id>>, NotFound, <<>>)
                /\ open_sessions' = open_sessions + 1

\* Lines 131-153.
create_service(customer_id, phone_number, service_name) ==
    LET args == <<customer_id, phone_number, service_name>>
        customer == QueryCustomer(customers, customer_id)
        u == UnitOfWork(customer, customer_id, phone_number, service_name)
    IN  /\ UNCHANGED <<today, open_sessions, submitted, pc, sess>>
        /\ IF customer = None
           THEN /\ ret' = Response("create_service", args, NotFound, <<>>)
                /\ UNCHANGED <<customers, services>>
           ELSE IF LimitReached(customer)
           THEN /\ ret' = Response("create_service", args, MaxReached, <<>>)
                /\ UNCHANGED <<customers, services>>
           ELSE /\ services' = InsertService(services, u)
                /\ customers' = UpdateCustomer(customers, u)
                /\ ret' = Response("create_service", args, ServiceCreated, <<>>)

\* Lines 165-177.
get_customer_services(customer_id) ==
    LET customer == QueryCustomer(customers, customer_id)
    IN  /\ UNCHANGED <<customers, services, today, submitted, pc, sess>>
        /\ IF customer # None
           THEN /\ ret' = Response("get_customer_services", <<customer_id>>, Block,
                                   ServicesBlock(customer, ServicesOf(services, customer)))
                /\ UNCHANGED open_sessions
           ELSE \* line 177 returns without session.close()
                /\ ret' = Response("get_customer_services", <<customer_id>>, NotFound, <<>>)
                /\ open_sessions' = open_sessions + 1

(***************************************************************************)
(* Inputs of the requests.                                                 *)
(***************************************************************************)
Names == {<<"A", "l", "i">>}
Families == {<<"A", "h", "m", "a", "d", "i">>}
FatherNames == {<<"R", "e", "z", "a">>}
NationalIds == {<<"0", "0", "1", "2", "3", "4", "5", "6", "7", "8">>}
ShenasnameIds == {<<"1", "2", "3">>}
Addresses == {<<"T", "e", "h", "r", "a", "n">>}
PhoneNumbers == {<<"0", "9", "1", "2">>}
ServiceNames == {<<"S", "I", "M">>}

\* The id of the first row and the id of the second row (or of no row).
NumericIds == {<<"1">>, <<"2">>}

\* Those, and a text that is no number.
CustomerIds == NumericIds \cup {<<"x">>}

\* The same day written as documented and without the leading zeros, and a
\* day less than 18 years before ClockDate.
BirthTexts == {<<"2", "0", "0", "0", "-", "0", "1", "-", "0", "5">>,
               <<"2", "0", "0", "0", "-", "1", "-", "5">>,
               <<"2", "0", "1", "0", "-", "0", "1", "-", "0", "5">>}

ClockDate == Date(2024, 6, 15)

Workers == 1..NumWorkers

NoSession == [args |-> <<>>, customer |-> None, service |-> None]

NoResponse == Response("", <<>>, "", <<>>)

Init ==
    /\ customers = <<>>
    /\ services = <<>>
    /\ today = ClockDate
    /\ open_sessions = 0
    /\ ret = NoResponse
    /\ submitted = <<>>
    /\ pc = [w \in Workers |-> "idle"]
    /\ sess = [w \in Workers |-> NoSession]

\* The caps of the model: a call is left out when it would take a table or
\* the number of open sessions past its bound.
WithinBounds(custs, svcs, open) ==
    Len(custs) <= MaxCustomers /\ Len(svcs) <= MaxRows /\ open <= MaxOpen

AddCustomer ==
    \E name \in Names, family \in Families, father_name \in FatherNames,
       national_id \in NationalIds, shenasname_id \in ShenasnameIds,
       birth_date \in {t \in BirthTexts : Len(t) = 10}, address \in Addresses :
        /\ add_customer(name, family, father_name, national_id, shenasname_id,
                        birth_date, address)
        /\ WithinBounds(customers', services', open_sessions')

GetCustomer ==
    \E customer_id \in NumericIds :
        /\ get_customer(customer_id)
        /\ WithinBounds(customers', services', open_sessions')

CreateService ==
    \E customer_id \in NumericIds, phone_number \in PhoneNumbers,
       service_name \in ServiceNames :
        /\ create_service(customer_id, phone_number, service_name)
        /\ WithinBounds(customers', services', open_sessions')

GetCustomerServices ==
    \E customer_id \in NumericIds :
        /\ get_customer_services(customer_id)
        /\ WithinBounds(customers', services', open_sessions')

Next == AddCustomer \/ GetCustomer \/ CreateService \/ GetCustomerServices

\* The handlers run one at a time (the wsgiref server of lines 187-191).
Spec == Init /\ [][Next]_vars

(***************************************************************************)
(* The same handlers over more customers, with birth dates in both         *)
(* spellings and few services.                                             *)
(***************************************************************************)
WithinFewBounds(custs, svcs, open) ==
    Len(custs) <= MaxFewCustomers /\ Len(svcs) <= MaxFewRows /\ open <= MaxOpen

AddCustomerAnySpelling ==
    \E name \in Names, family \in Families, father_name \in FatherNames,
       national_id \in NationalIds, shenasname_id \in ShenasnameIds,
       birth_date \in BirthTexts, address \in Addresses :
        /\ add_customer(name, family, father_name, national_id, shenasname_id,
                        birth_date, address)
        /\ WithinFewBounds(customers', services', open_sessions')

GetCustomerFew ==
    \E customer_id \in CustomerIds :
        /\ get_customer(customer_id)
        /\ WithinFewBounds(customers', services', open_sessions')

CreateFewServices ==
    \E customer_id \in CustomerIds, phone_number \in PhoneNumbers,
       service_name \in ServiceNames :
        /\ create_service(customer_id, phone_number, service_name)
        /\ WithinFewBounds(customers', services', open_sessions')

GetCustomerFewServices ==
    \E customer_id \in CustomerIds :
        /\ get_customer_services(customer_id)
        /\ WithinFewBounds(customers', services', open_sessions')

NextFields ==
    AddCustomerAnySpelling \/ GetCustomerFew \/ CreateFewServices \/ GetCustomerFewServices

SpecFields == Init /\ [][NextFields]_vars

(***************************************************************************)
(* Properties of the handlers run one at a time.                           *)
(***************************************************************************)
\* The number of Service rows that reference customer id.
RowsOf(svcs, id) == Cardinality({i \in 1..Len(svcs) : svcs[i].customer_id = id})

\* The rows of the customers table that the textual id denotes.
Matching(custs, text) == {i \in 1..Len(custs) : custs[i].id = CoerceId(text)}

\* C1: for a customer that exists, a create_service call made while the
\* customer has fewer than 10 Service rows (so each of the first 10 calls)
\* returns "Service created successfully." and adds exactly one row; a call
\* made once it has 10 rows returns "Maximum number of services reached for
\* this customer." and leaves both tables as they were; no customer ever has
\* more than 10 rows.
C1_FirstTenThenRefused ==
    /\ [](\A i \in 1..Len(customers) : RowsOf(services, i) <= MaxServices)
    /\ [][\A i \in Matching(customers, IF ret'.op = "create_service"
                                       THEN ret'.args[1] ELSE <<>>) :
            IF RowsOf(services, i) < MaxServices
            THEN /\ ret'.msg = ServiceCreated
                 /\ RowsOf(services', i) = RowsOf(services, i) + 1
                 /\ Len(services') = Len(services) + 1
            ELSE /\ ret'.msg = MaxReached
                 /\ services' = services
                 /\ customers' = customers]_vars

C1_Witness ==
    /\ ret.op = "create_service"
    /\ ret.msg = MaxReached
    /\ \E i \in Matching(customers, ret.args[1]) : RowsOf(services, i) = MaxServices

\* C2: every customer's services_count equals the number of Service rows
\* that reference it; a successful add_customer appends a customer whose
\* services_count is 0, and each successful create_service raises the
\* customer's services_count by exactly one.
C2_CountEqualsRows ==
    /\ [](\A i \in 1..Len(customers) :
            customers[i].services_count = RowsOf(services, customers[i].id))
    /\ [][(ret'.op = "add_customer" /\ ret'.msg = CustomerAdded)
            => /\ Len(customers') = Len(customers) + 1
               /\ customers'[Len(customers')].services_count = 0]_vars
    /\ [][(ret'.op = "create_service" /\ ret'.msg = ServiceCreated)
            => \A i \in Matching(customers, ret'.args[1]) :
                  customers'[i].services_count = customers[i].services_count + 1]_vars

C2_Witness ==
    /\ ret.op = "create_service"
    /\ ret.msg = ServiceCreated
    /\ \E i \in 1..Len(customers) :
          customers[i].services_count = 3 /\ RowsOf(services, i) = 3

\* C3: create_service with an id that matches no Customer row returns
\* "Customer not found." and changes neither table.
C3_CreateForMissingCustomer ==
    [][(ret'.op = "create_service" /\ Matching(customers, ret'.args[1]) = {})
        => /\ ret'.msg = NotFound
           /\ services' = services
           /\ customers' = customers]_vars

C3_Witness ==
    /\ ret.op = "create_service"
    /\ ret.msg = NotFound
    /\ Matching(customers, ret.args[1]) = {}
    /\ Len(customers) > 0
    /\ Len(services) > 0

\* C4: get_customer and get_customer_services with an id that matches no
\* Customer row return "Customer not found." and change neither table.
C4_ReadsOfMissingCustomer ==
    [][(ret'.op \in {"get_customer", "get_customer_services"}
            /\ Matching(customers, ret'.args[1]) = {})
        => /\ ret'.msg = NotFound
           /\ ret'.body = <<>>
           /\ services' = services
           /\ customers' = customers]_vars

C4_Witness ==
    /\ ret.op \in {"get_customer", "get_customer_services"}
    /\ ret.msg = NotFound
    /\ Matching(customers, ret.args[1]) = {}
    /\ Len(customers) > 0
    /\ Len(services) > 0

\* The line of a get_customer block that shows field k of add_customer's
\* arguments (the first line shows the id).
Shown(k) == ret.body[k + 1][2]

\* C6 as stated: get_customer with the id assigned by a successful
\* add_customer returns a block that shows that id and the seven submitted
\* fields exactly as they were given.
C6_FieldsExactlyAsGiven ==
    \A i \in 1..Len(submitted) :
        (ret.op = "get_customer" /\ ret.args = <<Decimal(i)>>)
            => /\ ret.msg = Block
               /\ Len(ret.body) = 8
               /\ ret.body[1][2] = Decimal(i)
               /\ \A k \in 1..7 : Shown(k) = submitted[i][k]

\* C6 amended: the block shows the id and the six fields other than
\* birth_date exactly as given; birth_date is shown as the ten-character
\* YYYY-MM-DD form of the submitted day, which is the submitted text itself
\* when that was written with its leading zeros.
C6_FieldsAsStored ==
    \A i \in 1..Len(submitted) :
        (ret.op = "get_customer" /\ ret.args = <<Decimal(i)>>)
            => /\ ret.msg = Block
               /\ Len(ret.body) = 8
               /\ ret.body[1][2] = Decimal(i)
               /\ \A k \in (1..7) \ {6} : Shown(k) = submitted[i][k]
               /\ Len(Shown(6)) = 10
               /\ strptime(Shown(6)) = strptime(submitted[i][6])
               /\ (Len(submitted[i][6]) = 10 => Shown(6) = submitted[i][6])

C6_Witness ==
    /\ ret.op = "get_customer"
    /\ ret.msg = Block
    /\ Len(services) > 0
    /\ \E i \in 1..Len(submitted) :
          ret.args = <<Decimal(i)>> /\ Len(submitted[i][6]) < 10

\* C8: after any sequence of completed handler calls no session is open.
C8_NoSessionLeftOpen == open_sessions = 0

(***************************************************************************)
(* The age rule of add_customer, over a range of clock dates.              *)
(***************************************************************************)
IsDate(d) == d.year >= 1 /\ d.month \in 1..12 /\ d.day >= 1 /\ d.day <= DaysIn(d.year, d.month)

NextDay(d) ==
    IF d.day < DaysIn(d.year, d.month) THEN Date(d.year, d.month, d.day + 1)
    ELSE IF d.month < 12 THEN Date(d.year, d.month + 1, 1)
    ELSE Date(d.year + 1, 1, 1)

EighteenYearsBefore(t) == Date(t.year - AdultAge, t.month, t.day)

\* Clock dates around the end of February, in and out of leap years, around
\* the end of the year and in mid-year.
Todays ==
    {Date(2022, 2, 28), Date(2022, 3, 1), Date(2024, 1, 1), Date(2024, 2, 28),
     Date(2024, 2, 29), Date(2024, 3, 1), Date(2024, 6, 15), Date(2024, 12, 31)}

\* For every clock date the day 18 years before it and the day after that
\* one (one of them is 2006-02-29, which no calendar has); a day written
\* without leading zeros; texts strptime refuses.
BirthTextsAge ==
    {isoformat(EighteenYearsBefore(t)) : t \in Todays}
        \cup {isoformat(NextDay(EighteenYearsBefore(t))) : t \in Todays}
        \cup {<<"2", "0", "0", "6", "-", "2", "-", "2", "8">>,
              <<"2", "0", "0", "6", "-", "1", "3", "-", "0", "1">>,
              <<"0", "6", "-", "0", "2", "-", "2", "8">>}

InitAge ==
    /\ customers = <<>>
    /\ services = <<>>
    /\ today \in Todays
    /\ open_sessions = 0
    /\ ret = NoResponse
    /\ submitted = <<>>
    /\ pc = [w \in Workers |-> "idle"]
    /\ sess = [w \in Workers |-> NoSession]

AddCustomerAge ==
    \E name \in Names, family \in Families, father_name \in FatherNames,
       national_id \in NationalIds, shenasname_id \in ShenasnameIds,
       birth_date \in BirthTextsAge, address \in Addresses :
        /\ add_customer(name, family, father_name, national_id, shenasname_id,
                        birth_date, address)
        /\ Len(customers') <= MaxBirths
        /\ open_sessions' <= MaxOpen

NextAge == AddCustomerAge

SpecAge == InitAge /\ [][NextAge]_vars

\* The age in whole years: the difference of the years, less one when the
\* clock's month and day come before the month and day of birth.
MonthDay(d) == 100 * d.month + d.day
CalendarAge(t, b) == t.year - b.year - (IF MonthDay(t) < MonthDay(b) THEN 1 ELSE 0)

\* C5: add_customer with a birth date that strptime accepts inserts one
\* Customer row and returns "Customer added successfully." exactly when the
\* calendar age on the clock date is at least 18, and otherwise returns the
\* age message and inserts nothing; so the day exactly 18 years before the
\* clock date is accepted and the day after it is refused.
C5_AdultExactlyFromEighteenthBirthday ==
    [][LET b == strptime(ret'.args[6])
           cutoff == EighteenYearsBefore(today)
       IN  (ret'.op = "add_customer" /\ b # ValueError)
            => /\ CalendarAge(today, b) >= AdultAge
                    => /\ ret'.msg = CustomerAdded
                       /\ Len(customers') = Len(customers) + 1
                       /\ customers'[Len(customers')].birth_date = b
               /\ CalendarAge(today, b) < AdultAge
                    => /\ ret'.msg = AgeMessage
                       /\ customers' = customers
               /\ (IsDate(cutoff) /\ b = cutoff) => ret'.msg = CustomerAdded
               /\ (IsDate(cutoff) /\ b = NextDay(cutoff)) => ret'.msg = AgeMessage]_vars

C5_Witness ==
    /\ ret.op = "add_customer"
    /\ ret.msg = AgeMessage
    /\ today.month = 2
    /\ IsDate(EighteenYearsBefore(today))
    /\ strptime(ret.args[6]) = NextDay(EighteenYearsBefore(today))
    /\ Len(customers) > 0
    /\ customers[1].birth_date = EighteenYearsBefore(today)

(***************************************************************************)
(* create_service under a server that runs requests concurrently.  Each    *)
(* worker runs the handler in its own session: the SELECT of line 134, the *)
(* checks and in-memory changes of lines 135-149, and the commit of line   *)
(* 151 (INSERT, UPDATE and COMMIT, which the store makes visible at once). *)
(***************************************************************************)
\* Lines 131-134.
cs_query(w, customer_id, phone_number, service_name) ==
    /\ pc[w] = "idle"
    /\ open_sessions' = open_sessions + 1
    /\ sess' = [sess EXCEPT ![w] =
                    [args |-> <<customer_id, phone_number, service_name>>,
                     customer |-> QueryCustomer(customers, customer_id),
                     service |-> None]]
    /\ pc' = [pc EXCEPT ![w] = "loaded"]
    /\ UNCHANGED <<customers, services, today, ret, submitted>>

\* Lines 135-149.
cs_check(w) ==
    LET args == sess[w].args
        customer == sess[w].customer
        u == UnitOfWork(customer, args[1], args[2], args[3])
    IN  /\ pc[w] = "loaded"
        /\ UNCHANGED <<customers, services, today, submitted>>
        /\ IF customer = None
           THEN /\ ret' = Response("create_service", args, NotFound, <<>>)
                /\ open_sessions' = open_sessions - 1
                /\ sess' = [sess EXCEPT ![w] = NoSession]
                /\ pc' = [pc EXCEPT ![w] = "idle"]
           ELSE IF LimitReached(customer)
           THEN /\ ret' = Response("create_service", args, MaxReached, <<>>)
                /\ open_sessions' = open_sessions - 1
                /\ sess' = [sess EXCEPT ![w] = NoSession]
                /\ pc' = [pc EXCEPT ![w] = "idle"]
           ELSE /\ sess' = [sess EXCEPT ![w] =
                                [args |-> args, customer |-> u.customer,
                                 service |-> u.service]]
                /\ pc' = [pc EXCEPT ![w] = "pending"]
                /\ UNCHANGED <<ret, open_sessions>>

\* Lines 151-153.
cs_commit(w) ==
    /\ pc[w] = "pending"
    /\ services' = InsertService(services, sess[w])
    /\ customers' = UpdateCustomer(customers, sess[w])
    /\ ret' = Response("create_service", sess[w].args, ServiceCreated, <<>>)
    /\ open_sessions' = open_sessions - 1
    /\ sess' = [sess EXCEPT ![w] = NoSession]
    /\ pc' = [pc EXCEPT ![w] = "idle"]
    /\ UNCHANGED <<today, submitted>>

\* The store after one add_customer.
FirstCustomer ==
    <<CHOOSE x \in Names : TRUE, CHOOSE x \in Families : TRUE,
      CHOOSE x \in FatherNames : TRUE, CHOOSE x \in NationalIds : TRUE,
      CHOOSE x \in ShenasnameIds : TRUE, isoformat(EighteenYearsBefore(ClockDate)),
      CHOOSE x \in Addresses : TRUE>>

InitConc ==
    /\ customers = <<Customer(1, FirstCustomer[1], FirstCustomer[2], FirstCustomer[3],
                              FirstCustomer[4], FirstCustomer[5],
                              strptime(FirstCustomer[6]), FirstCustomer[7])>>
    /\ services = <<>>
    /\ today = ClockDate
    /\ open_sessions = 0
    /\ ret = Response("add_customer", FirstCustomer, CustomerAdded, <<>>)
    /\ submitted = <<FirstCustomer>>
    /\ pc = [w \in Workers |-> "idle"]
    /\ sess = [w \in Workers |-> NoSession]

Query ==
    /\ Len(services) < MaxRowsConc
    /\ \E w \in Workers, customer_id \in NumericIds, phone_number \in PhoneNumbers,
          service_name \in ServiceNames :
            cs_query(w, customer_id, phone_number, service_name)

Check == \E w \in Workers : cs_check(w)

Commit == \E w \in Workers : cs_commit(w)

NextConc == Query \/ Check \/ Commit

SpecConc == InitConc /\ [][NextConc]_vars

\* Worker w commits in this step.
Commits(w) == pc[w] = "pending" /\ pc'[w] = "idle"

\* C7 as stated, for the outcome of the race that takes a customer past the
\* limit: once more than 10 Service rows reference a customer, its
\* services_count is greater than 10.
C7_CountExceedsLimit ==
    \A i \in 1..Len(customers) :
        RowsOf(services, i) > MaxServices => customers[i].services_count > MaxServices

\* C7 amended: under interleaved create_service calls a customer's
\* services_count never exceeds 10 and never exceeds the number of its
\* Service rows; it is the number of rows that can end up greater than 10.
C7_CountWithinLimitAndRows ==
    \A i \in 1..Len(customers) :
        /\ customers[i].services_count <= MaxServices
        /\ customers[i].services_count <= RowsOf(services, i)

C7_Witness ==
    \E i \in 1..Len(customers) :
        /\ RowsOf(services, i) > MaxServices
        /\ customers[i].services_count = MaxServices

\* C9: a committing create_service adds its Service row and stores its
\* services_count in the same step, and no other step changes either; so no
\* state shows a customer with a row and a services_count of 0, or with a
\* services_count above 0 and no row.
C9_RowAndCountInOneCommit ==
    /\ [](\A i \in 1..Len(customers) :
            (RowsOf(services, i) = 0) <=> (customers[i].services_count = 0))
    /\ [][\A w \in Workers : Commits(w) =>
            /\ Len(services') = Len(services) + 1
            /\ services'[Len(services')].customer_id = sess[w].customer.id
            /\ customers'[sess[w].customer.id].services_count
                    = sess[w].customer.services_count]_vars
    /\ [][(services' # services \/ customers' # customers)
            => \E w \in Workers : Commits(w)]_vars

C9_Witness ==
    \E w \in Workers :
        /\ pc[w] = "pending"
        /\ ret.msg = ServiceCreated
        /\ RowsOf(services, sess[w].customer.id) = sess[w].customer.services_count
        /\ customers[sess[w].customer.id].services_count = sess[w].customer.services_count

\* C10: under interleaved create_service calls every services_count stays
\* between 0 and 10, and every change of one stores a value that a call
\* read below 10, plus one.
C10_CountBetweenZeroAndLimit ==
    /\ [](\A i \in 1..Len(customers) :
            customers[i].services_count \in 0..MaxServices)
    /\ [][\A i \in 1..Len(customers) :
            customers'[i].services_count # customers[i].services_count
                => \E w \in Workers :
                      /\ Commits(w)
                      /\ sess[w].customer.id = i
                      /\ sess[w].customer.services_count - 1 < MaxServices
                      /\ customers'[i].services_count
                            = (sess[w].customer.services_count - 1) + 1]_vars

\* The lost update: more rows than the counter shows.
C10_Witness ==
    \E i \in 1..Len(customers) :
        /\ RowsOf(services, i) > customers[i].services_count
        /\ RowsOf(services, i) <= MaxServices

=============================================================================
